---- MODULE Spec2Model ----
(***************************************************************************)
(* Model of main.py: the TileParser state machine driven by the event      *)
(* stream of HTMLParser.feed, fetch_tiles (scan, whitespace clean-up,      *)
(* truncation), generate_rss and the three output modes of main.           *)
(*                                                                         *)
(* Text is a sequence of characters, one string each.  A Python dict that is *)
(* reachable through two references (parser._current and an element of     *)
(* parser.tiles) is modelled by the flag `shared`: while it is TRUE a      *)
(* write through _current is a write to the last element of tiles.         *)
(***************************************************************************)
EXTENDS Integers, Sequences, FiniteSets

VARIABLES
    tiles,      \* TileParser.tiles
    in_tile,    \* TileParser._in_tile
    in_title,   \* TileParser._in_title
    in_desc,    \* TileParser._in_desc
    current,    \* TileParser._current
    depth,      \* TileParser._depth
    shared,     \* _current is the very dict object that is tiles[-1]
    pc,         \* position of the run inside main / fetch_tiles
    rss,        \* args.rss
    result,     \* value returned by fetch_tiles (main's local `tiles`)
    stdout,     \* what has been written to standard output, in order
    files,      \* the files the run has created or replaced: name and present content
    writes,     \* history: the write_text calls that opened their file, in order
    exit,       \* exit status of the process, NoExit while it runs
    sys_stdout, \* the condition in which the run's writing step found sys.stdout
                \* (fixed outside the program, read by that step only); "unused" before
    doc,        \* the input drawn at the start: the document being fed (DocSpec),
                \* the raw tiles a scan has left (OutSpec); <<>> in Spec
    input,      \* events of the document not yet fed (DocSpec)
    last,       \* history: the event handled by the latest feed step
    nEvents,    \* history: number of events fed so far
    nMarkers,   \* history: number of container-marker start-tags fed so far
    hasB        \* history: a <b> start-tag was fed since the latest marker start-tag

parser == <<tiles, in_tile, in_title, in_desc, current, depth, shared>>
cli    == <<rss, result, stdout, files, writes, exit>>
hist   == <<last, nEvents, nMarkers, hasB>>
vars   == <<tiles, in_tile, in_title, in_desc, current, depth, shared, pc, rss,
            result, stdout, files, writes, exit, sys_stdout, doc, input, last,
            nEvents, nMarkers, hasB>>

----------------------------------------------------------------------------
(* Bounds *)

MaxEvents == 7      \* events fed in one scan of Spec
MaxK      == 10     \* sibling containers of a document of DocSpec
MaxChunks == 3      \* text events inside one title element (DocSpec)
MaxSib    == 3      \* sibling containers of a document with void tags (DocSpec)
MaxLen    == 3      \* characters of a raw title left by a scan (OutSpec)

----------------------------------------------------------------------------
(* Program constants *)

N == 6

TileMarker == "home-tile-outside"
DescMarker == "home-tile-description"

\* The characters c with c.isspace(), the separators of str.split().  A character
\* that TLA+ has no escape for is written as its Python escape ("\\xa0" is the one
\* character U+00A0, the no-break space of &nbsp;).
Whitespace ==
    {"\t", "\n", "\\x0b", "\f", "\r", "\\x1c", "\\x1d", "\\x1e", "\\x1f", " ",
     "\\x85", "\\xa0", "\\u1680", "\\u2000", "\\u2001", "\\u2002", "\\u2003",
     "\\u2004", "\\u2005", "\\u2006", "\\u2007", "\\u2008", "\\u2009", "\\u200a",
     "\\u2028", "\\u2029", "\\u202f", "\\u205f", "\\u3000"}

EmptyDict == [k \in {} |-> <<>>]
NewTile   == [title |-> <<>>, summary |-> <<>>]

\* The exit status while the process has not exited.
NoExit == -1

\* args.rss: None when --rss is absent, else the path as its components
\* ("-" is <<"-">>, the empty string is <<>>).
None      == [given |-> FALSE, path |-> <<>>]
Arg(path) == [given |-> TRUE, path |-> path]
Stdout    == Arg(<<"-">>)
RssArgs   == {None, Stdout, Arg(<<>>), Arg(<<"out", "feed.xml">>), Arg(<<"index.html">>)}

\* Values of datetime.now(timezone.utc) at the call of generate_rss.
Times == {"t1", "t2"}

\* The fixed index page: its title and heading, and the link to the feed.
INDEX_HTML == [doctype |-> "html", heading |-> "Trading Economics Summary",
               href |-> "feed.xml"]

\* What a write that failed part-way leaves in the file: a proper prefix of the
\* text (possibly empty), neither a complete feed nor the complete index page.
Fragment(of) == [fragment |-> of]

\* The conditions in which a run can find its standard output:
\*   "delivers"  the stream takes the text and delivers it;
\*   "none"      the descriptor was closed at start-up, so sys.stdout is None;
\*   "raises"    a write to the stream raises (OSError on an unbuffered stream or
\*               when the buffer overflows on a full device, UnicodeEncodeError);
\*   "lost"      the text is buffered and the flush at interpreter shutdown fails
\*               (full device, pipe whose reader has gone): exit status 120;
\*   "dropped"   the text is buffered, the flush at the end of the script fails and
\*               the interpreter discards the error: exit status 0.
StdoutConds == {"delivers", "none", "raises", "lost", "dropped"}
Unused      == "unused"

\* The exit status of a run that ends with `status` after a message or a traceback
\* went to standard error: 120 instead when the flush of standard error fails at
\* interpreter shutdown (standard error on a full device).
Failed(status) == {status, 120}

\* What is left on standard output of a text that was not delivered in full.
StdoutFragment(of) == [kind |-> "fragment", of |-> of]

\* The parts of `items` that a failing stream can have delivered: the first k items
\* (k < Len(items)), alone or followed by a fragment of item k + 1.
Partial(items) ==
    {SubSeq(items, 1, k) : k \in 0..Len(items) - 1}
    \cup {Append(SubSeq(items, 1, k), StdoutFragment(items[k + 1].kind)) :
             k \in 0..Len(items) - 1}

\* What reaches standard output of the items written to it.
Delivered(cond, items) ==
    CASE cond = "delivers" -> {items}
      [] cond = "none" -> {<<>>}
      [] cond \in {"raises", "lost", "dropped"} -> Partial(items)

\* Exit statuses after print(...): print is a no-op when sys.stdout is None; an
\* exception it raises leaves main (status 1, traceback on standard error).
PrintExit(cond) ==
    CASE cond = "delivers" -> {0}
      [] cond = "none" -> {0}
      [] cond = "raises" -> Failed(1)
      [] cond = "lost" -> {120}
      [] cond = "dropped" -> {0}

\* Exit statuses after sys.stdout.write(...): AttributeError when sys.stdout is None.
WriteExit(cond) ==
    CASE cond = "delivers" -> {0}
      [] cond = "none" -> Failed(1)
      [] cond = "raises" -> Failed(1)
      [] cond = "lost" -> {120}
      [] cond = "dropped" -> {0}

\* Exit statuses after argparse's print_help and exit(0): with sys.stdout None the
\* usage text goes to standard error, and an OSError of the write is swallowed.
HelpExit(cond) ==
    CASE cond = "delivers" -> {0}
      [] cond = "none" -> Failed(0)
      [] cond = "raises" -> {0}
      [] cond = "lost" -> {120}
      [] cond = "dropped" -> {0}

\* Exit statuses after argparse's error() when sys.stderr is None: print_usage falls
\* back to sys.stdout, an AttributeError or OSError of the write is swallowed, and
\* the process exits with status 2.
UsageExit(cond) ==
    CASE cond = "delivers" -> {2}
      [] cond = "none" -> {2}
      [] cond = "raises" -> {2}
      [] cond = "lost" -> {120}
      [] cond = "dropped" -> {2}

\* path.write_text(content) on the file system: the file of that name is created,
\* or its content replaced.
write_text(fs, path, content) ==
    IF \E k \in 1..Len(fs) : fs[k].path = path
    THEN [k \in 1..Len(fs) |-> IF fs[k].path = path
                               THEN [path |-> path, content |-> content] ELSE fs[k]]
    ELSE Append(fs, [path |-> path, content |-> content])

----------------------------------------------------------------------------
(* Pure helpers *)

Min(a, b) == IF a < b THEN a ELSE b

Range(s) == {s[i] : i \in 1..Len(s)}

\* `marker in classes`: the class attribute value is a sequence of pieces, each a
\* marker or a piece no marker overlaps, so substring containment is piece membership.
Contains(marker, classes) == \E i \in 1..Len(classes) : classes[i] = marker

\* dict.get(key): the value, or <<>> (falsy, like None) when the key is absent.
Get(d, key) == IF key \in DOMAIN d THEN d[key] ELSE <<>>

RECURSIVE SplitFrom(_, _, _, _)
SplitFrom(s, i, word, acc) ==
    IF i > Len(s)
    THEN IF word = <<>> THEN acc ELSE Append(acc, word)
    ELSE IF s[i] \in Whitespace
         THEN SplitFrom(s, i + 1, <<>>, IF word = <<>> THEN acc ELSE Append(acc, word))
         ELSE SplitFrom(s, i + 1, Append(word, s[i]), acc)

\* str.split(): the maximal runs of non-whitespace characters, in order.
split(s) == SplitFrom(s, 1, <<>>, <<>>)

RECURSIVE join(_, _)
\* sep.join(words)
join(sep, words) ==
    IF words = <<>> THEN <<>>
    ELSE IF Len(words) = 1 THEN words[1]
    ELSE words[1] \o sep \o join(sep, Tail(words))

RECURSIVE CollapsePairs(_)
CollapsePairs(s) ==
    IF s = <<>> THEN <<>>
    ELSE IF Len(s) >= 2 /\ s[1] \in Whitespace /\ s[2] \in Whitespace
         THEN <<" ">> \o CollapsePairs(SubSeq(s, 3, Len(s)))
         ELSE <<IF s[1] \in Whitespace THEN " " ELSE s[1]>> \o CollapsePairs(Tail(s))

\* Variant: one pass that replaces each pair of whitespace characters by a space.
clean_pairs(text) == CollapsePairs(text)

\* " ".join(text.split())
clean(text) == join(<<" ">>, split(text))

----------------------------------------------------------------------------
(* Events delivered by HTMLParser.feed to the three callbacks *)

StartEv(tag, classes) == [kind |-> "start", tag |-> tag, classes |-> classes, data |-> <<>>]
EndEv(tag)            == [kind |-> "end", tag |-> tag, classes |-> <<>>, data |-> <<>>]
DataEv(data)          == [kind |-> "data", tag |-> "", classes |-> <<>>, data |-> data]
NoEvent               == [kind |-> "none", tag |-> "", classes |-> <<>>, data |-> <<>>]

\* dict(attrs).get("class", "") for a class attribute written without a value
\* (<p class>): HTMLParser reports the pair ("class", None), so the value is None
\* and not a string.  It is the one value whose single piece is not a piece of text.
NoValue == <<"None">>

\* `marker in classes` raises TypeError when classes is None.
TypeError(classes) == classes = NoValue

\* Inputs of the free event stream of Spec.
Tags       == {"div", "b", "p"}
ClassAttrs == {<<>>, <<TileMarker>>, <<DescMarker>>,
               <<"x", TileMarker, " ", DescMarker>>}
\* The start-tags of the stream: every tag with every class attribute value, and
\* <p class>, the tag whose class attribute has no value.
StartTags  == {StartEv(tag, classes) : tag \in Tags, classes \in ClassAttrs}
              \cup {StartEv("p", NoValue)}
Texts      == {<<"a">>, <<" ">>}

----------------------------------------------------------------------------
(* TileParser *)

\* Variant: a marker start-tag starts a tile only when no tile is in progress.
handle_starttag_guarded(tag, classes) ==
    IF TypeError(classes) THEN UNCHANGED parser ELSE
    LET reset == Contains(TileMarker, classes) /\ ~in_tile
        tile  == in_tile \/ reset
        cur   == IF reset THEN NewTile ELSE current
        d     == IF reset THEN 0 ELSE depth
    IN  /\ in_tile' = tile
        /\ current' = cur
        /\ shared' = IF reset THEN FALSE ELSE shared
        /\ depth' = IF tile THEN d + 1 ELSE d
        /\ in_title' = IF tile /\ tag = "b" /\ cur["title"] = <<>> THEN TRUE ELSE in_title
        /\ in_desc' = IF tile /\ Contains(DescMarker, classes) THEN TRUE ELSE in_desc
        /\ tiles' = tiles

\* Variant: every <b> start-tag of a tile enters title-capture mode.
handle_starttag_retitle(tag, classes) ==
    IF TypeError(classes) THEN UNCHANGED parser ELSE
    LET reset == Contains(TileMarker, classes)
        tile  == in_tile \/ reset
        cur   == IF reset THEN NewTile ELSE current
        d     == IF reset THEN 0 ELSE depth
    IN  /\ in_tile' = tile
        /\ current' = cur
        /\ shared' = IF reset THEN FALSE ELSE shared
        /\ depth' = IF tile THEN d + 1 ELSE d
        /\ in_title' = IF tile /\ tag = "b" THEN TRUE ELSE in_title
        /\ in_desc' = IF tile /\ Contains(DescMarker, classes) THEN TRUE ELSE in_desc
        /\ tiles' = tiles

\* Variant: start-tags outside tile-scanning mode are counted too.
handle_starttag_count_all(tag, classes) ==
    IF TypeError(classes) THEN UNCHANGED parser ELSE
    LET reset == Contains(TileMarker, classes)
        tile  == in_tile \/ reset
        cur   == IF reset THEN NewTile ELSE current
        d     == IF reset THEN 0 ELSE depth
    IN  /\ in_tile' = tile
        /\ current' = cur
        /\ shared' = IF reset THEN FALSE ELSE shared
        /\ depth' = d + 1
        /\ in_title' = IF tile /\ tag = "b" /\ cur["title"] = <<>> THEN TRUE ELSE in_title
        /\ in_desc' = IF tile /\ Contains(DescMarker, classes) THEN TRUE ELSE in_desc
        /\ tiles' = tiles

handle_starttag(tag, classes) ==
    IF TypeError(classes) THEN UNCHANGED parser ELSE
    LET reset == Contains(TileMarker, classes)
        tile  == in_tile \/ reset
        cur   == IF reset THEN NewTile ELSE current
        d     == IF reset THEN 0 ELSE depth
    IN  /\ in_tile' = tile
        /\ current' = cur
        /\ shared' = IF reset THEN FALSE ELSE shared
        /\ depth' = IF tile THEN d + 1 ELSE d
        /\ in_title' = IF tile /\ tag = "b" /\ cur["title"] = <<>> THEN TRUE ELSE in_title
        /\ in_desc' = IF tile /\ Contains(DescMarker, classes) THEN TRUE ELSE in_desc
        /\ tiles' = tiles

\* Variant: every end-tag leaves title-capture mode.
handle_endtag_any(tag) ==
    IF in_tile
    THEN /\ depth' = depth - 1
         /\ in_title' = FALSE
         /\ in_desc' = IF in_desc /\ tag = "div" THEN FALSE ELSE in_desc
         /\ IF depth - 1 <= 0
            THEN /\ in_tile' = FALSE
                 /\ IF Get(current, "title") # <<>>
                    THEN tiles' = Append(tiles, current) /\ shared' = TRUE
                    ELSE UNCHANGED <<tiles, shared>>
            ELSE UNCHANGED <<in_tile, tiles, shared>>
         /\ UNCHANGED current
    ELSE UNCHANGED parser

\* Variant: the tile is closed only when the depth falls below zero.
handle_endtag_strict(tag) ==
    IF in_tile
    THEN /\ depth' = depth - 1
         /\ in_title' = IF tag = "b" THEN FALSE ELSE in_title
         /\ in_desc' = IF in_desc /\ tag = "div" THEN FALSE ELSE in_desc
         /\ IF depth - 1 < 0
            THEN /\ in_tile' = FALSE
                 /\ IF Get(current, "title") # <<>>
                    THEN tiles' = Append(tiles, current) /\ shared' = TRUE
                    ELSE UNCHANGED <<tiles, shared>>
            ELSE UNCHANGED <<in_tile, tiles, shared>>
         /\ UNCHANGED current
    ELSE UNCHANGED parser

\* Variant: every end-tag leaves description-capture mode.
handle_endtag_desc_any(tag) ==
    IF in_tile
    THEN /\ depth' = depth - 1
         /\ in_title' = IF tag = "b" THEN FALSE ELSE in_title
         /\ in_desc' = FALSE
         /\ IF depth - 1 <= 0
            THEN /\ in_tile' = FALSE
                 /\ IF Get(current, "title") # <<>>
                    THEN tiles' = Append(tiles, current) /\ shared' = TRUE
                    ELSE UNCHANGED <<tiles, shared>>
            ELSE UNCHANGED <<in_tile, tiles, shared>>
         /\ UNCHANGED current
    ELSE UNCHANGED parser

\* Variant: end-tags are handled outside tile-scanning mode too.
handle_endtag_unguarded(tag) ==
    IF TRUE
    THEN /\ depth' = depth - 1
         /\ in_title' = IF tag = "b" THEN FALSE ELSE in_title
         /\ in_desc' = IF in_desc /\ tag = "div" THEN FALSE ELSE in_desc
         /\ IF depth - 1 <= 0
            THEN /\ in_tile' = FALSE
                 /\ IF Get(current, "title") # <<>>
                    THEN tiles' = Append(tiles, current) /\ shared' = TRUE
                    ELSE UNCHANGED <<tiles, shared>>
            ELSE UNCHANGED <<in_tile, tiles, shared>>
         /\ UNCHANGED current
    ELSE UNCHANGED parser

handle_endtag(tag) ==
    IF in_tile
    THEN /\ depth' = depth - 1
         /\ in_title' = IF tag = "b" THEN FALSE ELSE in_title
         /\ in_desc' = IF in_desc /\ tag = "div" THEN FALSE ELSE in_desc
         /\ IF depth - 1 <= 0
            THEN /\ in_tile' = FALSE
                 /\ IF Get(current, "title") # <<>>
                    THEN tiles' = Append(tiles, current) /\ shared' = TRUE
                    ELSE UNCHANGED <<tiles, shared>>
            ELSE UNCHANGED <<in_tile, tiles, shared>>
         /\ UNCHANGED current
    ELSE UNCHANGED parser

\* Variant: the two tests are independent (if / if instead of if / elif).
handle_data_both(data) ==
    IF in_title \/ in_desc
    THEN /\ current' = [current EXCEPT
                           !["title"] = IF in_title THEN @ \o data ELSE @,
                           !["summary"] = IF in_desc THEN @ \o data ELSE @]
         /\ tiles' = IF shared THEN [tiles EXCEPT ![Len(tiles)] = current'] ELSE tiles
         /\ UNCHANGED <<in_tile, in_title, in_desc, depth, shared>>
    ELSE UNCHANGED parser

handle_data(data) ==
    IF in_title
    THEN /\ current' = [current EXCEPT !["title"] = @ \o data]
         /\ tiles' = IF shared THEN [tiles EXCEPT ![Len(tiles)] = current'] ELSE tiles
         /\ UNCHANGED <<in_tile, in_title, in_desc, depth, shared>>
    ELSE IF in_desc
    THEN /\ current' = [current EXCEPT !["summary"] = @ \o data]
         /\ tiles' = IF shared THEN [tiles EXCEPT ![Len(tiles)] = current'] ELSE tiles
         /\ UNCHANGED <<in_tile, in_title, in_desc, depth, shared>>
    ELSE UNCHANGED parser

\* TileParser.__init__
ParserInit ==
    /\ tiles = <<>>
    /\ in_tile = FALSE
    /\ in_title = FALSE
    /\ in_desc = FALSE
    /\ current = EmptyDict
    /\ depth = 0
    /\ shared = FALSE

\* The callback of this event raises.
Raises(ev) == ev.kind = "start" /\ TypeError(ev.classes)

\* HTMLParser.feed hands one event to its callback; an exception the callback
\* raises is caught nowhere: it leaves parser.feed, fetch_tiles and main, and the
\* process exits with status 1 (traceback on standard error).
Dispatch(ev) ==
    /\ pc' = IF Raises(ev) THEN "exit" ELSE pc
    /\ exit' \in IF Raises(ev) THEN Failed(1) ELSE {exit}
    /\ CASE ev.kind = "start" -> handle_starttag(ev.tag, ev.classes)
         [] ev.kind = "end"   -> handle_endtag(ev.tag)
         [] ev.kind = "data"  -> handle_data(ev.data)
    /\ last' = ev
    /\ nEvents' = nEvents + 1
    /\ nMarkers' = IF ev.kind = "start" /\ Contains(TileMarker, ev.classes)
                   THEN nMarkers + 1 ELSE nMarkers
    /\ hasB' = IF ev.kind = "start" /\ Contains(TileMarker, ev.classes) THEN ev.tag = "b"
               ELSE IF ev.kind = "start" /\ ev.tag = "b" THEN TRUE
               ELSE hasB

HistInit ==
    /\ last = NoEvent
    /\ nEvents = 0
    /\ nMarkers = 0
    /\ hasB = FALSE

----------------------------------------------------------------------------
(* main: the command line *)

\* args = parser.parse_args(): the command line is accepted, args.rss is the value
\* of --rss or None.
parse_args ==
    /\ pc = "args"
    /\ rss' \in RssArgs
    /\ pc' = "fetch"
    /\ UNCHANGED <<parser, result, stdout, files, writes, exit, sys_stdout,
                   doc, input, hist>>

\* parse_args() on -h / --help: the usage text goes to standard output and the
\* process exits with status 0; nothing is fetched.
parse_args_help ==
    /\ pc = "args"
    /\ \E cond \in StdoutConds :
          /\ sys_stdout' = cond
          /\ \E d \in Delivered(cond, <<[kind |-> "usage"]>>) : stdout' = stdout \o d
          /\ exit' \in HelpExit(cond)
    /\ pc' = "exit"
    /\ UNCHANGED <<parser, rss, result, files, writes, doc, input, hist>>

\* parse_args() on a command line it rejects (--rss without a value, an unknown
\* option, a positional argument): the usage line and the error go to standard
\* error and the process exits with status 2; nothing is fetched.  When descriptor
\* 2 was closed at start-up sys.stderr is None: the usage line goes to standard
\* output instead and the error message is lost.
parse_args_error ==
    /\ pc = "args"
    /\ \E stderr_is_none \in BOOLEAN :
          IF stderr_is_none
          THEN \E cond \in StdoutConds :
                  /\ sys_stdout' = cond
                  /\ \E d \in Delivered(cond, <<[kind |-> "usage_line"]>>) :
                        stdout' = stdout \o d
                  /\ exit' \in UsageExit(cond)
          ELSE /\ exit' \in Failed(2)
               /\ UNCHANGED <<stdout, sys_stdout>>
    /\ pc' = "exit"
    /\ UNCHANGED <<parser, rss, result, files, writes, doc, input, hist>>

----------------------------------------------------------------------------
(* fetch_tiles *)

\* urlopen(req) and resp.read().decode() succeed: the scan starts.
fetch_ok ==
    /\ pc = "fetch"
    /\ pc' = "feed"
    /\ UNCHANGED <<parser, cli, sys_stdout, doc, input, hist>>

\* urlopen / read / decode raises: the exception leaves main, the process exits 1.
fetch_fail ==
    /\ pc = "fetch"
    /\ pc' = "exit"
    /\ exit' \in Failed(1)
    /\ UNCHANGED <<parser, rss, result, stdout, files, writes, sys_stdout,
                   doc, input, hist>>

\* The clean-up loop over parser.tiles (in place) and the slice that is returned.
\* Variant: only the titles are cleaned.
cleaned_titles(ts) ==
    [i \in 1..Len(ts) |-> [title |-> clean(ts[i]["title"]), summary |-> ts[i]["summary"]]]

cleaned(ts) ==
    [i \in 1..Len(ts) |-> [title |-> clean(ts[i]["title"]),
                           summary |-> clean(ts[i]["summary"])]]

\* Variant: the slice keeps one tile too many.
first_n_wide(ts) == SubSeq(ts, 1, Min(N + 1, Len(ts)))

\* parser.tiles[:6]
first_n(ts) == SubSeq(ts, 1, Min(N, Len(ts)))

fetch_return ==
    /\ pc = "feed"
    /\ input = <<>>
    /\ tiles' = cleaned(tiles)
    /\ current' = IF shared THEN tiles'[Len(tiles')] ELSE current
    /\ result' = first_n(tiles')
    /\ pc' = "main"
    /\ UNCHANGED <<in_tile, in_title, in_desc, depth, shared, rss, stdout, files, writes,
                   exit, sys_stdout, doc, input, hist>>

\* One callback of parser.feed(html), any event (Spec).
feed_starttag ==
    /\ pc = "feed" /\ nEvents < MaxEvents
    /\ \E ev \in StartTags : Dispatch(ev)
    /\ UNCHANGED <<rss, result, stdout, files, writes, sys_stdout, doc, input>>

feed_endtag ==
    /\ pc = "feed" /\ nEvents < MaxEvents
    /\ \E tag \in Tags : Dispatch(EndEv(tag))
    /\ UNCHANGED <<rss, result, stdout, files, writes, sys_stdout, doc, input>>

feed_data ==
    /\ pc = "feed" /\ nEvents < MaxEvents
    /\ \E data \in Texts : Dispatch(DataEv(data))
    /\ UNCHANGED <<rss, result, stdout, files, writes, sys_stdout, doc, input>>

----------------------------------------------------------------------------
(* generate_rss and main *)

RECURSIVE Replace(_, _, _)
\* text.replace(ch, rep)
Replace(text, ch, rep) ==
    IF text = <<>> THEN <<>>
    ELSE (IF Head(text) = ch THEN rep ELSE <<Head(text)>>) \o Replace(Tail(text), ch, rep)

Amp == <<"&", "a", "m", "p", ";">>
Lt  == <<"&", "l", "t", ";">>
Gt  == <<"&", "g", "t", ";">>

\* Variant: "&" is replaced after "<" and ">".
escape_cdata_amp_last(text) == Replace(Replace(Replace(text, "<", Lt), ">", Gt), "&", Amp)

\* The character data ET.tostring writes for an element's text.
escape_cdata(text) == Replace(Replace(Replace(text, "&", Amp), "<", Lt), ">", Gt)

\* Variant: the clock is read again for every item after the first.
generate_rss_clock_per_item(ts, now) ==
    [decl |-> "<?xml version=\"1.0\" encoding=\"utf-8\"?>",
     version |-> "2.0",
     title |-> "Trading Economics Summary",
     link |-> "https://tradingeconomics.com",
     description |-> "Hourly snapshot of Trading Economics homepage tiles",
     lastBuildDate |-> now,
     items |-> [i \in 1..Len(ts) |->
                  [title |-> escape_cdata(ts[i]["title"]),
                   description |-> escape_cdata(ts[i]["summary"]),
                   pubDate |-> IF i = 1 THEN now ELSE CHOOSE t \in Times : t # now]]]

\* The returned XML text, as its elements and their serialized character data.
generate_rss(ts, now) ==
    [decl |-> "<?xml version=\"1.0\" encoding=\"utf-8\"?>",
     version |-> "2.0",
     title |-> "Trading Economics Summary",
     link |-> "https://tradingeconomics.com",
     description |-> "Hourly snapshot of Trading Economics homepage tiles",
     lastBuildDate |-> now,
     items |-> [i \in 1..Len(ts) |-> [title |-> escape_cdata(ts[i]["title"]),
                                      description |-> escape_cdata(ts[i]["summary"]),
                                      pubDate |-> now]]]

\* bool(args.rss)
Truthy(a) == a.given /\ a.path # <<>>

\* rss_path.parent / "index.html"
IndexPath(path) == SubSeq(path, 1, Len(path) - 1) \o <<"index.html">>

\* Variant: the empty result is not detected.
no_tiles_never(ts) == FALSE

\* not tiles
no_tiles(ts) == ts = <<>>

\* Variant: the "-" sentinel is not recognised.
mode_no_sentinel(a) == IF Truthy(a) THEN "file" ELSE "print"

\* The if / elif / else over args.rss.
mode(a) == IF a = Stdout THEN "stdout" ELSE IF Truthy(a) THEN "file" ELSE "print"

\* if not tiles: raise SystemExit(message)
main_no_tiles ==
    /\ pc = "main"
    /\ no_tiles(result)
    /\ pc' = "exit"
    /\ exit' \in Failed(1)
    /\ UNCHANGED <<parser, rss, result, stdout, files, writes, sys_stdout,
                   doc, input, hist>>

\* args.rss == "-"
main_rss_stdout ==
    /\ pc = "main"
    /\ ~no_tiles(result)
    /\ mode(rss) = "stdout"
    /\ \E now \in Times, cond \in StdoutConds :
          /\ sys_stdout' = cond
          /\ \E d \in Delivered(cond, <<[kind |-> "rss",
                                          body |-> generate_rss(result, now)]>>) :
                stdout' = stdout \o d
          /\ exit' \in WriteExit(cond)
    /\ pc' = "exit"
    /\ UNCHANGED <<parser, rss, result, files, writes, doc, input, hist>>

\* elif args.rss: rss_path.write_text(generate_rss(tiles))
main_write_feed ==
    /\ pc = "main"
    /\ ~no_tiles(result)
    /\ mode(rss) = "file"
    /\ \E now \in Times :
          /\ files' = write_text(files, rss.path, generate_rss(result, now))
          /\ writes' = Append(writes, [path |-> rss.path,
                                       content |-> generate_rss(result, now)])
    /\ pc' = "index"
    /\ UNCHANGED <<parser, rss, result, stdout, exit, sys_stdout, doc, input,
                   hist>>

\* rss_path.write_text raises OSError: either open() fails and no file is touched,
\* or the file has been created or truncated by open() and the write or the flush
\* fails, which leaves a fragment of the feed under the feed's name.
main_write_feed_fail ==
    /\ pc = "main"
    /\ ~no_tiles(result)
    /\ mode(rss) = "file"
    /\ \E opened \in BOOLEAN :
          IF opened
          THEN /\ files' = write_text(files, rss.path, Fragment("feed"))
               /\ writes' = Append(writes, [path |-> rss.path,
                                            content |-> Fragment("feed")])
          ELSE UNCHANGED <<files, writes>>
    /\ pc' = "exit"
    /\ exit' \in Failed(1)
    /\ UNCHANGED <<parser, rss, result, stdout, sys_stdout, doc, input,
                   hist>>

\* index_path.write_text(INDEX_HTML): when the feed's own name is index.html this
\* replaces the feed just written.
main_write_index ==
    /\ pc = "index"
    /\ files' = write_text(files, IndexPath(rss.path), INDEX_HTML)
    /\ writes' = Append(writes, [path |-> IndexPath(rss.path), content |-> INDEX_HTML])
    /\ pc' = "confirm"
    /\ UNCHANGED <<parser, rss, result, stdout, exit, sys_stdout, doc, input,
                   hist>>

\* index_path.write_text raises OSError, before or after open() has created or
\* truncated index.html.
main_write_index_fail ==
    /\ pc = "index"
    /\ \E opened \in BOOLEAN :
          IF opened
          THEN /\ files' = write_text(files, IndexPath(rss.path), Fragment("index"))
               /\ writes' = Append(writes, [path |-> IndexPath(rss.path),
                                            content |-> Fragment("index")])
          ELSE UNCHANGED <<files, writes>>
    /\ pc' = "exit"
    /\ exit' \in Failed(1)
    /\ UNCHANGED <<parser, rss, result, stdout, sys_stdout, doc, input,
                   hist>>

\* print(f"Wrote {rss_path} and {index_path}")
main_confirm ==
    /\ pc = "confirm"
    /\ \E cond \in StdoutConds :
          /\ sys_stdout' = cond
          /\ \E d \in Delivered(cond, <<[kind |-> "confirm", rss_path |-> rss.path,
                                          index_path |-> IndexPath(rss.path)]>>) :
                stdout' = stdout \o d
          /\ exit' \in PrintExit(cond)
    /\ pc' = "exit"
    /\ UNCHANGED <<parser, rss, result, files, writes, doc, input, hist>>

\* else: one block per tile, then print()
main_print ==
    /\ pc = "main"
    /\ ~no_tiles(result)
    /\ mode(rss) = "print"
    /\ \E cond \in StdoutConds :
          /\ sys_stdout' = cond
          /\ \E d \in Delivered(cond,
                               [i \in 1..Len(result) |-> [kind |-> "tile", i |-> i,
                                                          title |-> result[i]["title"],
                                                          summary |-> result[i]["summary"]]]
                               \o <<[kind |-> "blank"]>>) :
                stdout' = stdout \o d
          /\ exit' \in PrintExit(cond)
    /\ pc' = "exit"
    /\ UNCHANGED <<parser, rss, result, files, writes, doc, input, hist>>

----------------------------------------------------------------------------
(* The run of main on a free event stream *)

\* The process at its start: nothing parsed, fetched or written.
CliInit ==
    /\ rss = None
    /\ result = <<>>
    /\ stdout = <<>>
    /\ files = <<>>
    /\ writes = <<>>
    /\ exit = NoExit
    /\ sys_stdout = Unused

Init ==
    /\ ParserInit
    /\ CliInit
    /\ HistInit
    /\ pc = "args"
    /\ doc = <<>>
    /\ input = <<>>

Next ==
    \/ parse_args
    \/ parse_args_help
    \/ parse_args_error
    \/ fetch_ok
    \/ fetch_fail
    \/ feed_starttag
    \/ feed_endtag
    \/ feed_data
    \/ fetch_return
    \/ main_no_tiles
    \/ main_rss_stdout
    \/ main_write_feed
    \/ main_write_feed_fail
    \/ main_write_index
    \/ main_write_index_fail
    \/ main_confirm
    \/ main_print

Spec == Init /\ [][Next]_vars

----------------------------------------------------------------------------
(* Documents: sequences of sibling tile containers, and their event streams *)

\* One container <div class="home-tile-outside"> <b> chunks </b> [description] </div>:
\* chunks are the text events inside the title element, wrap[j] says that chunk j is
\* enclosed in <span>..</span>, void is the place of a start-tag that has no end-tag
\* (0: none, 1: before <b>, 2: inside <b>, 3: after </b>, 4: inside the description);
\* void = 5 puts a stray </p> before the container's end-tag instead.
Container(chunks, wrap, hasDesc, desc, void) ==
    [chunks |-> chunks, wrap |-> wrap, hasDesc |-> hasDesc, desc |-> desc, void |-> void]

RECURSIVE Flatten(_)
Flatten(ss) == IF ss = <<>> THEN <<>> ELSE Head(ss) \o Flatten(Tail(ss))

VoidAt(c, place) == IF c.void = place THEN <<StartEv("img", <<>>)>> ELSE <<>>

TitleEvents(c) ==
    Flatten([j \in 1..Len(c.chunks) |->
                IF c.wrap[j]
                THEN <<StartEv("span", <<>>), DataEv(c.chunks[j]), EndEv("span")>>
                ELSE <<DataEv(c.chunks[j])>>])

ContainerEvents(c) ==
    <<StartEv("div", <<TileMarker>>)>>
    \o VoidAt(c, 1)
    \o <<StartEv("b", <<>>)>> \o TitleEvents(c) \o VoidAt(c, 2) \o <<EndEv("b")>>
    \o VoidAt(c, 3)
    \o (IF c.hasDesc
        THEN <<StartEv("div", <<DescMarker>>)>>
             \o (IF c.desc = <<>> THEN <<>> ELSE <<DataEv(c.desc)>>)
             \o VoidAt(c, 4)
             \o <<EndEv("div")>>
        ELSE <<>>)
    \o (IF c.void = 5 THEN <<EndEv("p")>> ELSE <<>>)
    \o <<EndEv("div")>>

DocEvents(d) == Flatten([i \in 1..Len(d) |-> ContainerEvents(d[i])])

SeqsUpTo(S, n) == UNION {[1..k -> S] : k \in 0..n}

\* K <= MaxK containers, each one of two plain shapes.
PlainShapes ==
    {Container(<<<<"a">>>>, <<FALSE>>, FALSE, <<>>, 0),
     Container(<<<<"b">>>>, <<FALSE>>, TRUE, <<"c">>, 0)}
PlainDocs == SeqsUpTo(PlainShapes, MaxK)

\* One container: a title text T and a description text D.
TitleTexts == {<<"a">>, <<"a", " ", "b">>, <<" ", "a", "\n", "\t", "b", " ">>, <<" ">>,
               <<"a", "\r", "\\xa0", "b">>, <<"\r">>, <<"a", "\\u200b", "b">>}
DescTexts  == {<<>>, <<"c">>, <<"c", " ", " ", "d">>, <<"\n", "c", " ", "d", "\n">>,
               <<"c", "\f", "d", "\\u3000">>}
PairDocs ==
    {<<Container(<<T>>, <<FALSE>>, TRUE, D, 0)>> : T \in TitleTexts, D \in DescTexts}

\* One container whose title text arrives as up to MaxChunks text events.
ChunkTexts == {<<"a">>, <<" ">>, <<"b", "c">>}
ChunkDocs ==
    UNION {{<<Container(ch, w, TRUE, <<"d">>, 0)>> :
               ch \in [1..n -> ChunkTexts], w \in [1..n -> BOOLEAN]} : n \in 1..MaxChunks}

\* 2..MaxSib siblings, container i with its own letters, each with or without a
\* start-tag that is never closed, or with a stray end-tag.
Letters == <<"a", "b", "c", "d", "e", "f", "g", "h", "i", "j">>
Sibling(i, void) ==
    Container(<<<<Letters[2 * i - 1]>>>>, <<FALSE>>, TRUE, <<Letters[2 * i]>>, void)
VoidDocs ==
    UNION {{[i \in 1..k |-> Sibling(i, v[i])] : v \in [1..k -> 0..5]} : k \in 2..MaxSib}

Docs == PlainDocs \cup PairDocs \cup ChunkDocs \cup VoidDocs

\* One callback of parser.feed(html): the next event of the document (DocSpec).
feed_doc ==
    /\ pc = "feed"
    /\ input # <<>>
    /\ Dispatch(Head(input))
    /\ input' = Tail(input)
    /\ UNCHANGED <<rss, result, stdout, files, writes, sys_stdout, doc>>

DocInit ==
    /\ ParserInit
    /\ HistInit
    /\ rss = None
    /\ result = <<>>
    /\ stdout = <<>>
    /\ files = <<>>
    /\ writes = <<>>
    /\ exit = NoExit
    /\ sys_stdout = Unused
    /\ pc = "feed"
    /\ doc \in Docs
    /\ input = DocEvents(doc)

DocNext ==
    \/ feed_doc
    \/ fetch_return

DocSpec == DocInit /\ [][DocNext]_vars

----------------------------------------------------------------------------
(* Clean-up and output on the raw tiles a scan has left *)

RawChars     == {"a", " ", "\n", "\r", "\\xa0", "&", "<"}
RawTitles    == UNION {[1..k -> RawChars] : k \in 1..MaxLen}
RawSummaries == {<<>>, <<"<", "&", ">">>, <<" ", "b", " ", " ", "c">>,
                 <<"&", "a", "m", "p", ";">>}
RawTiles     == {[title |-> t, summary |-> u] : t \in RawTitles, u \in RawSummaries}
FewTiles     == {[title |-> <<"a", "&", "<">>, summary |-> <<>>],
                 [title |-> <<"b", " ", " ", "c">>, summary |-> <<"<", "c">>],
                 [title |-> <<"&", "l", "t", ";">>, summary |-> <<"d", "\t">>]}
ScanResults  == {<<>>} \cup {<<r>> : r \in RawTiles}
                       \cup {<<r1, r2>> : r1 \in FewTiles, r2 \in FewTiles}

\* The parser after parser.feed(html) returned with these tiles finalized.
OutInit ==
    /\ tiles \in ScanResults
    /\ in_tile = FALSE
    /\ in_title = FALSE
    /\ in_desc = FALSE
    /\ depth = 0
    /\ current = IF tiles = <<>> THEN EmptyDict ELSE tiles[Len(tiles)]
    /\ shared = (tiles # <<>>)
    /\ rss \in RssArgs
    /\ result = <<>>
    /\ stdout = <<>>
    /\ files = <<>>
    /\ writes = <<>>
    /\ exit = NoExit
    /\ sys_stdout = Unused
    /\ HistInit
    /\ pc = "feed"
    /\ doc = tiles
    /\ input = <<>>

OutNext ==
    \/ fetch_return
    \/ main_no_tiles
    \/ main_rss_stdout
    \/ main_write_feed
    \/ main_write_feed_fail
    \/ main_write_index
    \/ main_write_index_fail
    \/ main_confirm
    \/ main_print

OutSpec == OutInit /\ [][OutNext]_vars

----------------------------------------------------------------------------
(* Properties *)

\* A document whose every start-tag has its end-tag and that has no stray end-tag.
WellFormed(d) == \A i \in 1..Len(d) : d[i].void = 0

\* The tile of a well-formed container: its title text and its description text.
ExpectedTile(c) ==
    [title |-> clean(Flatten(c.chunks)),
     summary |-> clean(IF c.hasDesc THEN c.desc ELSE <<>>)]

Scanned == pc = "feed" /\ input = <<>> /\ nEvents = Len(DocEvents(doc))

\* C1: a well-formed document of K sibling containers, each with a non-empty title
\* text, yields exactly min(K, 6) tiles, the i-th from the i-th container; the
\* containers after the sixth are scanned all the same (all K are finalized).
C1_FirstSixInOrder ==
    (pc = "main" /\ WellFormed(doc)) =>
        /\ Len(result) = Min(Len(doc), N)
        /\ \A i \in 1..Len(result) : result[i] = ExpectedTile(doc[i])
        /\ nEvents = Len(DocEvents(doc))
        /\ Len(tiles) = Len(doc)

C1_Witness ==
    /\ pc = "main"
    /\ WellFormed(doc)
    /\ Len(doc) > N + 1
    /\ Len(result) = N
    /\ result[1] # result[2]
    /\ doc[N + 1] # doc[N + 2]

\* C2: every returned tile has a non-empty title after whitespace normalization.
C2_TitlesNonEmpty ==
    pc \in {"main", "index", "confirm", "exit"} =>
        \A i \in 1..Len(result) : result[i]["title"] # <<>>

\* C3: a container-marker start-tag that arrives in tile-scanning mode leaves the
\* accumulator alone and only increments the depth counter.
C3_NestedMarkerAbsorbed ==
    [][(/\ pc = "feed"
        /\ nEvents' = nEvents + 1
        /\ in_tile
        /\ last'.kind = "start"
        /\ Contains(TileMarker, last'.classes))
       => (current' = current /\ depth' = depth + 1)]_vars

\* C4: no event of the scan changes a tile that is already in the result list.
C4_FinalizedTilesImmutable ==
    [][(pc = "feed" /\ nEvents' = nEvents + 1)
       => SubSeq(tiles', 1, Len(tiles)) = tiles]_vars

\* C5: when the scan of a container that held no <b> start-tag ends, no tile is
\* appended and the scan goes on.
C5_NoBoldNoTile ==
    [][(/\ pc = "feed"
        /\ nEvents' = nEvents + 1
        /\ last'.kind = "end"
        /\ in_tile /\ ~in_tile'
        /\ ~hasB)
       => (tiles' = tiles /\ pc' = "feed" /\ exit' = NoExit)]_vars

\* C6: a run whose fetch step failed (the request or a callback of the scan raised)
\* or whose extractor returned no tile ends at that step with a non-zero exit status
\* and has written nothing: no file, nothing on standard output.
C6_NoTilesNoOutput ==
    [][(\/ pc = "fetch" /\ pc' = "exit"
        \/ pc = "feed" /\ pc' = "exit"
        \/ pc = "main" /\ result = <<>>)
       => /\ pc' = "exit"
          /\ exit' > 0
          /\ stdout' = <<>>
          /\ files' = <<>>
          /\ writes' = <<>>]_vars

C6_Witness ==
    /\ pc = "exit"
    /\ exit = 1
    /\ ~Raises(last)
    /\ nMarkers > 0
    /\ nEvents > 1
    /\ result = <<>>
    /\ stdout = <<>>
    /\ writes = <<>>

\* The single container <div M><b>T</b><div D>D</div></div>.
IsPair(d) ==
    /\ Len(d) = 1
    /\ Len(d[1].chunks) = 1
    /\ ~d[1].wrap[1]
    /\ d[1].hasDesc
    /\ d[1].void = 0

\* C7: a single container holding a bold element with text T and a description
\* element with text D yields one tile, title normalized T and summary normalized D.
C7_TitleAndSummaryOfPair ==
    (pc = "main" /\ IsPair(doc)) =>
        /\ Len(result) = 1
        /\ result[1]["title"] = clean(doc[1].chunks[1])
        /\ result[1]["summary"] = clean(doc[1].desc)
        /\ doc[1].chunks[1] = <<" ", "a", "\n", "\t", "b", " ">>
              => result[1]["title"] = <<"a", " ", "b">>
        /\ doc[1].desc = <<"c", " ", " ", "d">> => result[1]["summary"] = <<"c", " ", "d">>
        /\ doc[1].chunks[1] = <<"a", "\r", "\\xa0", "b">>
              => result[1]["title"] = <<"a", " ", "b">>
        /\ doc[1].chunks[1] = <<"a", "\\u200b", "b">>
              => result[1]["title"] = <<"a", "\\u200b", "b">>
        /\ doc[1].desc = <<"c", "\f", "d", "\\u3000">>
              => result[1]["summary"] = <<"c", " ", "d">>

C7_Witness ==
    /\ pc = "main"
    /\ IsPair(doc)
    /\ doc[1].chunks[1] = <<"a", "\r", "\\xa0", "b">>
    /\ doc[1].desc = <<"c", "\f", "d", "\\u3000">>
    /\ result = <<[title |-> <<"a", " ", "b">>, summary |-> <<"c", " ", "d">>]>>

\* C8: the raw title of a tile is the concatenation, in document order, of all the
\* text events inside its title element, whether or not balanced inline tags
\* separate them.
C8_TitleChunksConcatenated ==
    (Scanned /\ WellFormed(doc)) =>
        /\ Len(tiles) = Len(doc)
        /\ \A i \in 1..Len(doc) : tiles[i]["title"] = Flatten(doc[i].chunks)

C8_Witness ==
    /\ Scanned
    /\ Len(doc) = 1
    /\ Len(doc[1].chunks) = 3
    /\ doc[1].wrap = <<FALSE, TRUE, FALSE>>
    /\ Len(tiles) = 1
    /\ tiles[1]["title"] = <<"a", "b", "c", " ">>

\* Siblings that each carry their own letters.
IsSiblings(d) == Len(d) >= 2 /\ \A i \in 1..Len(d) : d[i] = Sibling(i, d[i].void)

OwnText(c) == Range(Flatten(c.chunks)) \cup Range(c.desc)

\* C9: with unclosed start-tags (or stray end-tags) inside sibling containers, no
\* returned tile holds text of two containers: all its text is text of one container.
C9_NoMergedTiles ==
    (pc = "main" /\ IsSiblings(doc)) =>
        \A t \in 1..Len(result) :
            \E i \in 1..Len(doc) :
                (Range(result[t]["title"]) \cup Range(result[t]["summary"]))
                    \subseteq OwnText(doc[i])

C9_Witness ==
    /\ pc = "main"
    /\ IsSiblings(doc)
    /\ doc[1].void \in 1..4
    /\ doc[Len(doc)].void = 5
    /\ result # <<>>

Blocks(ts) ==
    [i \in 1..Len(ts) |-> [kind |-> "tile", i |-> i, title |-> ts[i]["title"],
                           summary |-> ts[i]["summary"]]]

IsRss(x) == "lastBuildDate" \in DOMAIN x

\* One block per tile in order, no file, no RSS document.
HumanForm ==
    /\ stdout = Blocks(result) \o <<[kind |-> "blank"]>>
    /\ files = <<>>
    /\ writes = <<>>

\* The RSS document on standard output, no file, no tile block.
StdoutForm ==
    /\ Len(stdout) = 1
    /\ stdout[1].kind = "rss"
    /\ IsRss(stdout[1].body)
    /\ files = <<>>
    /\ writes = <<>>

\* The RSS document written to the path, then index.html written next to it.
FilePair ==
    /\ Len(writes) = 2
    /\ writes[1].path = rss.path
    /\ IsRss(writes[1].content)
    /\ Len(writes[2].path) = Len(rss.path)
    /\ \A j \in 1..Len(rss.path) - 1 : writes[2].path[j] = rss.path[j]
    /\ writes[2].path[Len(rss.path)] = "index.html"
    /\ writes[2].content = INDEX_HTML

\* The RSS document at the path, index.html next to it, only the confirmation line.
FileForm ==
    /\ FilePair
    /\ Len(stdout) = 1
    /\ stdout[1].kind = "confirm"

IsFilePath(a) == a.given /\ a.path # <<>> /\ a.path # <<"-">>

\* The usage text on standard output and nothing else.
HelpForm == stdout = <<[kind |-> "usage"]>> /\ files = <<>> /\ writes = <<>>

IsPrefix(p, t) == Len(t) >= Len(p) /\ SubSeq(t, 1, Len(p)) = p

RECURSIVE Unescape(_)
\* The text an XML parser reads from serialized character data.
Unescape(t) ==
    IF t = <<>> THEN <<>>
    ELSE IF IsPrefix(Amp, t) THEN <<"&">> \o Unescape(SubSeq(t, Len(Amp) + 1, Len(t)))
    ELSE IF IsPrefix(Lt, t) THEN <<"<">> \o Unescape(SubSeq(t, Len(Lt) + 1, Len(t)))
    ELSE IF IsPrefix(Gt, t) THEN <<">">> \o Unescape(SubSeq(t, Len(Gt) + 1, Len(t)))
    ELSE <<Head(t)>> \o Unescape(Tail(t))

\* The RSS documents the run has produced so far, on standard output or in a file.
RssDocs ==
    {stdout[k].body : k \in {j \in 1..Len(stdout) : stdout[j].kind = "rss"}}
    \cup {writes[k].content : k \in {j \in 1..Len(writes) : IsRss(writes[j].content)}}

\* C11: the document built by generate_rss has one item per input tile, in the
\* order of the tiles, and the i-th item's title and description read back as the
\* i-th tile's title and summary.
C11_ItemsMirrorTiles ==
    \A d \in RssDocs :
        /\ Len(d.items) = Len(result)
        /\ \A i \in 1..Len(result) :
              /\ Unescape(d.items[i].title) = result[i]["title"]
              /\ Unescape(d.items[i].description) = result[i]["summary"]

C11_Witness ==
    \E d \in RssDocs :
        /\ Len(d.items) = 2
        /\ result[1]["title"] = <<"a", "&", "<">>
        /\ result[2]["title"] = <<"&", "l", "t", ";">>
        /\ d.items[1].title = <<"a">> \o Amp \o Lt
        /\ d.items[2].title = Amp \o <<"l", "t", ";">>

\* C12: in every document built by generate_rss all items carry the same pubDate,
\* and it is the channel's lastBuildDate.
C12_OneBuildTimestamp ==
    \A d \in RssDocs :
        /\ d.lastBuildDate \in Times
        /\ \A i \in 1..Len(d.items) : d.items[i].pubDate = d.lastBuildDate

C12_Witness ==
    \E d \in RssDocs :
        /\ Len(d.items) = 2
        /\ d.lastBuildDate = "t2"
        /\ d.items[1].pubDate = "t2"
        /\ d.items[2].pubDate = "t2"

\* C13: whitespace normalization is idempotent: normalizing the titles and summaries
\* that fetch_tiles has normalized yields the same titles and summaries.
C13_CleanIdempotent ==
    pc # "feed" => cleaned(tiles) = tiles

C13_Witness ==
    /\ pc = "main"
    /\ Len(doc) = 1
    /\ doc[1]["title"] = <<"\r", "a", "\\xa0">>
    /\ doc[1]["summary"] = <<" ", "b", " ", " ", "c">>
    /\ tiles = <<[title |-> <<"a">>, summary |-> <<"b", " ", "c">>]>>

\* One callback of the scan is taken.
FeedStep == pc = "feed" /\ nEvents' = nEvents + 1

MarkerStart(ev) == ev.kind = "start" /\ Contains(TileMarker, ev.classes)

\* C14: a tile is appended only by an end-tag handled in tile-scanning mode that
\* brings the depth to zero or below; that event leaves tile-scanning mode and
\* appends the accumulator iff its title is non-empty; the end of the input and
\* the steps after it append nothing.
C14_AppendOnlyOnClose ==
    [][/\ FeedStep =>
            LET closes == last'.kind = "end" /\ in_tile /\ depth - 1 <= 0
            IN  /\ Len(tiles') # Len(tiles) => closes
                /\ closes => /\ ~in_tile'
                             /\ tiles' = IF current["title"] # <<>>
                                         THEN Append(tiles, current) ELSE tiles
       /\ (pc = "feed" /\ pc' # "feed") => Len(tiles') = Len(tiles)
       /\ pc # "feed" => tiles' = tiles]_vars

C14_Witness ==
    /\ pc = "main"
    /\ in_tile
    /\ ~shared
    /\ current["title"] # <<>>
    /\ Len(tiles) = 1
    /\ Len(result) = 1

\* C15: once the accumulator's title is non-empty and title capture has ended, no
\* event of the same tile (no start-tag without the container marker, no end-tag,
\* no text) re-enters title-capture mode or changes the title.
C15_FirstTitleWins ==
    [][(/\ FeedStep
        /\ in_tile
        /\ ~in_title
        /\ current["title"] # <<>>
        /\ ~MarkerStart(last'))
       => (~in_title' /\ current'["title"] = current["title"])]_vars

C15_Witness ==
    /\ pc = "feed"
    /\ last = StartEv("b", <<>>)
    /\ in_tile
    /\ ~in_title
    /\ current["title"] # <<>>
    /\ depth = 2

\* C16: a text event appends to the title when title capture is on (summary
\* unchanged), else to the summary when description capture is on (title
\* unchanged), else changes neither the accumulator nor the result list; it never
\* changes in_tile, the depth or the capture flags.
C16_TextChangesOneField ==
    [][(FeedStep /\ last'.kind = "data") =>
          /\ UNCHANGED <<in_tile, depth, in_title, in_desc>>
          /\ IF in_title
             THEN /\ current'["title"] = current["title"] \o last'.data
                  /\ current'["summary"] = current["summary"]
             ELSE IF in_desc
             THEN /\ current'["summary"] = current["summary"] \o last'.data
                  /\ current'["title"] = current["title"]
             ELSE current' = current /\ tiles' = tiles]_vars

C16_Witness ==
    /\ pc = "feed"
    /\ last.kind = "data"
    /\ in_title
    /\ in_desc
    /\ current["title"] = last.data
    /\ current["summary"] = <<>>

\* C17: in tile-scanning mode a div end-tag leaves description capture off, an
\* end-tag of another name leaves it as it was, and no other event turns it off.
C17_DescEndsOnDivOnly ==
    [][(FeedStep /\ in_tile) =>
          /\ last'.kind = "end" =>
                IF last'.tag = "div" THEN ~in_desc' ELSE in_desc' = in_desc
          /\ (in_desc /\ ~in_desc') => (last'.kind = "end" /\ last'.tag = "div")]_vars

C17_Witness ==
    /\ pc = "feed"
    /\ last = EndEv("p")
    /\ in_tile
    /\ in_desc
    /\ current["summary"] # <<>>

\* C18: the depth is never negative, the parser is in tile-scanning mode iff the
\* depth is at least 1, and an end-tag outside tile-scanning mode changes nothing.
C18_DepthTracksTile ==
    /\ [](depth >= 0 /\ (in_tile <=> depth >= 1))
    /\ [][(FeedStep /\ last'.kind = "end" /\ ~in_tile) => UNCHANGED parser]_vars

C18_Witness ==
    /\ pc = "feed"
    /\ last.kind = "end"
    /\ ~in_tile
    /\ depth = 0
    /\ nMarkers = 0
    /\ nEvents > 1

\* C19: the result list never holds more tiles than marker start-tags were seen;
\* an event appends at most one tile, at the end, and only an accumulator that is
\* not in the list yet; no tile is removed and the earlier tiles keep their place.
C19_ResultListGrows ==
    /\ [](Len(tiles) <= nMarkers)
    /\ [][FeedStep =>
            /\ Len(tiles') \in {Len(tiles), Len(tiles) + 1}
            /\ \A i \in 1..Len(tiles) - 1 : tiles'[i] = tiles[i]
            /\ tiles # <<>> =>
                  /\ IsPrefix(tiles[Len(tiles)]["title"], tiles'[Len(tiles)]["title"])
                  /\ IsPrefix(tiles[Len(tiles)]["summary"], tiles'[Len(tiles)]["summary"])
            /\ Len(tiles') = Len(tiles) + 1 =>
                  (~shared /\ tiles'[Len(tiles')] = current)]_vars

C19_Witness ==
    /\ pc = "feed"
    /\ Len(tiles) = 2
    /\ nMarkers = 2
    /\ last.kind = "end"

\* The files the run has left.
HasFeed == \E k \in 1..Len(files) : IsRss(files[k].content)

HasIndex == \E k \in 1..Len(files) : files[k].content \in {INDEX_HTML, Fragment("index")}

Confirmed ==
    \E j \in 1..Len(stdout) :
        stdout[j].kind = "confirm" \/ stdout[j] = StdoutFragment("confirm")

\* C20: index.html is written only after the feed file has been written, and the
\* confirmation line is printed only after both writes succeeded; index.html never
\* exists without the feed file and the confirmation line never without both files.
C20_FeedThenIndexThenConfirm ==
    /\ \A k \in 1..Len(writes) :
          writes[k].content \in {INDEX_HTML, Fragment("index")} =>
              (k = 2 /\ IsRss(writes[1].content) /\ writes[1].path = rss.path)
    /\ Confirmed =>
          (Len(writes) = 2 /\ IsRss(writes[1].content) /\ writes[2].content = INDEX_HTML)
    /\ HasIndex => HasFeed
    /\ Confirmed => (HasFeed /\ HasIndex /\ Len(files) = 2)

====
